---- MODULE Spec2Model ----
(***************************************************************************)
(* website-carbon.js (final revision, src/website-carbon.js lines          *)
(* 440-1158): one run of the command-line tool, from argument processing   *)
(* through URL discovery, the green-hosting call, the cold and the warm    *)
(* measurement pass and the summary.                                       *)
(*                                                                         *)
(* URLs are small positive integers: u and u + 10 are two spellings of one  *)
(* URL that differ in letter case only, and the integer order of the       *)
(* numbers below 10 stands for the order of the lower-cased URL strings.   *)
(* Byte counts are counted in                                              *)
(* transfer units and CO2e in thousandths of a gram, so that the rating    *)
(* thresholds of the source (0.04 g ...) are the integers 40 ...           *)
(***************************************************************************)
EXTENDS Integers, Sequences, FiniteSets, TLC

\* ---- bounds of the model ------------------------------------------------
MaxUrls      == 2  \* URLs of the site (site map, crawl) in a whole run
MaxCrawl     == 1  \* pages a crawl fetches
MaxBudget    == 2  \* largest --max-pages explored in a whole run
MaxBatchUrls == 4  \* URLs of a pass explored on its own (SpecBatch)
MaxBytes     == 1  \* cap of a page's accumulated transfer units
MaxFailures  == 1  \* rejected awaits injected in one run
MaxPending   == 1  \* response bodies being read at once (buffer mode)
MaxEstimateBytes == 4  \* largest transfer handed to the estimator directly
MaxReportLen == 3  \* longest result list handed to the reporter directly
MaxCdpUrls == 2  \* pages of the pass whose protocol events are followed
MaxCdpBytes == 3  \* cap of a page's accumulated transfer units in that pass
MaxUnheard == 1  \* events of a page delivered after its listener was removed

\* ---- program constants --------------------------------------------------
concurrency   == 3       \* main: const concurrency = 3
FORCE_CRAWLER == FALSE

Slots == 1..concurrency
Urls  == 1..MaxUrls

Ratings == <<"A+", "A", "B", "C", "D", "E">>

SWDM3_RATINGS == <<95, 186, 341, 493, 656, 846>>
SWDM4_RATINGS == <<40, 79, 145, 209, 278, 359>>

\* null of a number-valued JavaScript variable is the empty sequence, a
\* number n is <<n>>
NullNum  == << >>
Num(n)   == <<n>>
IsNull(v) == v = << >>

VARIABLES
  \* configuration (module level constants of the script)
  positional,     \* "none" | "valid" | "invalid": the last positional argument
  sourceFile,     \* "none" | "file": values.file || null
  fileLines,      \* the lines of the source file: a URL, or 0 for a line "new URL" rejects
  maxPages,       \* parseInt(values["max-pages"], 10)
  measureMode,    \* values["measure-mode"]
  carbonModel,    \* values.model
  carbonRatings,  \* !values["no-ratings"]
  \* the process
  pc,             \* position of main()
  exit,           \* "running" | reason the process ended
  exitCode,
  siteUrl,        \* "null" | "site" | "fileOrigin"
  urls,
  sitemapCalled,
  sites,          \* what sitemap.fetch() delivered ([] before, and on an error)
  crawl,          \* "none" | "running" | "stopped" | "complete": the crawler
  crawledUrls,
  isGreen,        \* "false" | "promise": main's isGreen
  hostingCalls,
  hosting,        \* the lookup greenHosting() started: "none" | "pending" |
                  \* "green" | "notGreen" | "rejected"
  browser,        \* "none" | "launched" | "closed"
  cache,          \* URLs whose resources the browser cache holds
  co2Data,        \* the module level co2Data
  pass,           \* "none" | "cold" | "warm"
  i,              \* processInBatches: index of the running group (0-based)
  tasks,          \* the measurePage calls of the running group, by slot
  results,        \* processInBatches: results of the running pass
  firstVisitResults, returnVisitResults,
  handed,         \* the URL list each pass was started with
  started,        \* the URLs measurePage was called with, by pass, in call order
  failures,       \* rejected awaits so far
  stdout,         \* what was printed of interest: per-page lines and summary
  call            \* the last direct call of bytesToCO2 or carbonRating

vars == <<positional, sourceFile, fileLines, maxPages, measureMode, carbonModel,
          carbonRatings, pc, exit, exitCode, siteUrl, urls, sitemapCalled, sites,
          crawl, crawledUrls, isGreen, hostingCalls, hosting, browser, cache,
          co2Data, pass, i, tasks, results, firstVisitResults,
          returnVisitResults, handed, started, failures, stdout, call>>

config == <<positional, sourceFile, fileLines, maxPages, measureMode,
            carbonModel, carbonRatings>>

\* ---- pure helpers --------------------------------------------------------
RECURSIVE FilterValid(_)
\* readUrlsFromFile: urls.filter(url => { try { new URL(url); return true } ... })
FilterValid(lines) ==
  IF lines = << >> THEN << >>
  ELSE IF Head(lines) = 0 THEN FilterValid(Tail(lines))
       ELSE <<Head(lines)>> \o FilterValid(Tail(lines))

\* a slice that takes one element too many
Slice_OneMore(s, from, to) ==
  LET hi == IF to + 1 < Len(s) THEN to + 1 ELSE Len(s)
  IN  IF from >= hi THEN << >> ELSE SubSeq(s, from + 1, hi)

\* Array.prototype.slice(from, to) with 0-based, end-exclusive indices
Slice(s, from, to) ==
  LET hi == IF to < Len(s) THEN to ELSE Len(s)
  IN  IF from >= hi THEN << >> ELSE SubSeq(s, from + 1, hi)

\* String.prototype.toLowerCase on a URL: the spelling u + 10 becomes u
toLowerCase(u) == IF u > 10 THEN u - 10 ELSE u

\* outputSortAlphabetically(a, b): -1, 0 or 1 by the lower-cased url
outputSortAlphabetically(a, b) ==
  LET textA == toLowerCase(a.url)
      textB == toLowerCase(b.url)
  IN  IF textA < textB THEN -1 ELSE IF textA > textB THEN 1 ELSE 0

RECURSIVE InsertSorted(_, _)
InsertSorted(r, s) ==
  IF s = << >> THEN <<r>>
  ELSE IF outputSortAlphabetically(r, Head(s)) < 0 THEN <<r>> \o s
       ELSE <<Head(s)>> \o InsertSorted(r, Tail(s))

RECURSIVE SortResults(_)
\* an outputResults that prints the results as they were returned
SortResults_Unsorted(s) == s

\* results.sort(sortFn): Array.prototype.sort is stable
SortResults(s) ==
  IF s = << >> THEN << >>
  ELSE InsertSorted(s[Len(s)], SortResults(SubSeq(s, 1, Len(s) - 1)))

\* ---- the carbon model (co2.js behind model.perByte) ----------------------
\* a model switch that lets every model support ratings
modelSupportsCarbonRating_Always == TRUE

modelSupportsCarbonRating == carbonModel # "1byte"

\* a comparison chain with exclusive thresholds
RatingScale_Exclusive(co2e, t) ==
  IF co2e < t[1] THEN "A+"
  ELSE IF co2e < t[2] THEN "A"
  ELSE IF co2e < t[3] THEN "B"
  ELSE IF co2e < t[4] THEN "C"
  ELSE IF co2e < t[5] THEN "D"
  ELSE IF co2e < t[6] THEN "E"
  ELSE "F"

\* the comparison chain of carbonRating / of the library's rating scale
RatingScale(co2e, t) ==
  IF co2e <= t[1] THEN "A+"
  ELSE IF co2e <= t[2] THEN "A"
  ELSE IF co2e <= t[3] THEN "B"
  ELSE IF co2e <= t[4] THEN "C"
  ELSE IF co2e <= t[5] THEN "D"
  ELSE IF co2e <= t[6] THEN "E"
  ELSE "F"

\* grams of CO2e (in thousandths) the library reports for a transfer; a
\* truthy green argument lowers it
PerByteTotal(bytes, green) ==
  IF carbonModel = "1byte" THEN bytes * (IF green THEN 40 ELSE 50)
  ELSE bytes * (IF green THEN 60 ELSE 100)

\* model.perByte(bytes, green): {total, rating} when the model was built with
\* rating: true, a bare number otherwise (rating "undefined", isNumber TRUE)
perByte(bytes, green) ==
  LET total == PerByteTotal(bytes, green)
      rated == modelSupportsCarbonRating /\ carbonRatings
  IN  [total    |-> total,
       isNumber |-> ~rated,
       rating   |-> IF rated
                    THEN RatingScale(total, IF carbonModel = "swd3"
                                            THEN SWDM3_RATINGS ELSE SWDM4_RATINGS)
                    ELSE "undefined"]

\* a JavaScript value used as a condition: the promise greenHosting() returns
\* is an object, hence truthy
Truthy(g) == g \in {"true", "promise"}

\* lines 649-679 of bytesToCO2: the call of model.perByte
EstimateByModel(bytes, g) ==
  LET data == IF carbonModel = "swd3" THEN perByte(bytes, FALSE)
              ELSE perByte(bytes, Truthy(g))
  IN  [ret        |-> Num(data.total),
       modelCalls |-> 1,
       greenArg   |-> IF carbonModel = "swd3" THEN "undefined" ELSE g,
       co2Data    |-> [total  |-> IF data.isNumber THEN NullNum ELSE Num(data.total),
                       rating |-> IF modelSupportsCarbonRating
                                  THEN data.rating ELSE "null"]]

\* a bytesToCO2 without the special case of lines 641-647
bytesToCO2_NoZeroCase(bytes, g) == EstimateByModel(bytes, g)

\* bytesToCO2(bytes, isGreen): the value returned, the co2Data it leaves,
\* the number of calls of model.perByte it made and the second argument of
\* that call ("undefined" when the call has one argument only)
bytesToCO2(bytes, g) ==
  IF bytes = 0
  THEN [ret        |-> Num(0),
        modelCalls |-> 0,
        greenArg   |-> "none",
        co2Data    |-> [total  |-> Num(0),
                        rating |-> IF modelSupportsCarbonRating THEN "A+" ELSE "null"]]
  ELSE EstimateByModel(bytes, g)

\* a carbonRating that reads the version 4 table for every model
carbonRating_OneTable(co2e) ==
  IF ~IsNull(co2e)
  THEN RatingScale(co2e[1], SWDM4_RATINGS)
  ELSE IF modelSupportsCarbonRating THEN co2Data.rating ELSE "null"

\* carbonRating(co2e = null)
carbonRating(co2e) ==
  IF ~IsNull(co2e)
  THEN RatingScale(co2e[1], IF carbonModel = "swd3"
                            THEN SWDM3_RATINGS ELSE SWDM4_RATINGS)
  ELSE IF modelSupportsCarbonRating THEN co2Data.rating ELSE "null"

\* ---- initial state -------------------------------------------------------
NoRecord == [url |-> 0, bytes |-> 0, co2 |-> NullNum, rating |-> "null"]

\* a slot of the group in which no measurePage call runs
IdleTask ==
  [pc |-> "idle", url |-> 0, clearCache |-> FALSE,
   page |-> "null", client |-> "null", sent |-> {}, listener |-> FALSE,
   pending |-> 0, heard |-> 0, unheard |-> 0,
   totalBytes |-> 0, co2 |-> NullNum, ownRating |-> "none",
   touched |-> FALSE, ret |-> NoRecord]

\* no direct call of the estimator has been made
NoCall ==
  [fn |-> "none", bytes |-> 0, green |-> "false", co2e |-> NullNum,
   ret |-> NullNum, rating |-> "none", modelCalls |-> 0, greenArg |-> "none"]

\* the source files explored: one without a valid line, one with valid
\* lines between invalid ones (0 is a line that "new URL" rejects)
FileContents == {<<0>>, <<0, 2, 0, 1>>}

\* the combinations of --measure-mode, --model and --no-ratings explored:
\* the defaults, and each option changed
Configs ==
  {<<"cdp", "swd", TRUE>>, <<"buffer", "swd", TRUE>>, <<"other", "swd", TRUE>>,
   <<"cdp", "swd3", TRUE>>, <<"cdp", "swd4", TRUE>>, <<"cdp", "1byte", TRUE>>,
   <<"cdp", "swd", FALSE>>, <<"cdp", "1byte", FALSE>>}

\* the order in which the site map lists the site's URLs: descending, so that
\* discovery order differs from alphabetical order
SitemapOrder == [k \in 1..MaxUrls |-> MaxUrls + 1 - k]

Init ==
  /\ positional \in {"none", "valid", "invalid"}
  /\ \/ sourceFile = "none" /\ fileLines = << >>
     \/ sourceFile = "file" /\ fileLines \in FileContents
  /\ maxPages \in 1..MaxBudget
  /\ \E c \in Configs :
       measureMode = c[1] /\ carbonModel = c[2] /\ carbonRatings = c[3]
  /\ pc = "args"
  /\ exit = "running"
  /\ exitCode = 0
  /\ siteUrl = "null"
  /\ urls = << >>
  /\ sitemapCalled = FALSE
  /\ sites = << >>
  /\ crawl = "none"
  /\ crawledUrls = << >>
  /\ isGreen = "false"
  /\ hostingCalls = 0
  /\ hosting = "none"
  /\ browser = "none"
  /\ cache = {}
  /\ co2Data = [total |-> NullNum, rating |-> "undefined"]
  /\ pass = "none"
  /\ i = 0
  /\ tasks = [s \in Slots |-> IdleTask]
  /\ results = << >>
  /\ firstVisitResults = << >>
  /\ returnVisitResults = << >>
  /\ handed = [cold |-> << >>, warm |-> << >>]
  /\ started = [cold |-> << >>, warm |-> << >>]
  /\ failures = 0
  /\ stdout = << >>
  /\ call = NoCall

\* ---- the process ends ----------------------------------------------------
\* process.exit(code), or an exception that leaves main(): nothing runs after
Exits(reason, code) ==
  /\ exit' = reason
  /\ exitCode' = code

Running == exit = "running"

\* ---- module level: argument processing (lines 527-548) -------------------
ProcessArgs ==
  /\ Running /\ pc = "args"
  /\ IF positional = "none" /\ sourceFile = "none"
     THEN \* printHelp(): process.exit(0)
          /\ Exits("help", 0)
          /\ UNCHANGED <<pc, siteUrl>>
     ELSE IF positional = "invalid"
     THEN /\ Exits("InvalidURL", 1)
          /\ UNCHANGED <<pc, siteUrl>>
     ELSE /\ siteUrl' = IF positional = "valid" THEN "site" ELSE "null"
          /\ pc' = "main"
          /\ UNCHANGED <<exit, exitCode>>
  /\ UNCHANGED <<config, call, started, hosting, urls, sitemapCalled, sites, crawl, crawledUrls, isGreen,
                 hostingCalls, browser, cache, co2Data, pass, i, tasks, results,
                 firstVisitResults, returnVisitResults, handed, failures, stdout>>

\* ---- main(): URL discovery (lines 1074-1109) -----------------------------
\* the line "Hosting for '...' is green!" of line 1108
GreenNotice ==
  [kind |-> "greenNotice", pass |-> "none", url |-> 0, bytes |-> 0,
   co2 |-> NullNum, rating |-> "none", n |-> 0]

\* lines 1104-1109: isGreen = greenHosting(siteUrl) without await, so
\* isGreen is the promise of the lookup just started; if (isGreen) prints
\* the notice
CallGreenHosting ==
  /\ isGreen' = "promise"
  /\ hostingCalls' = hostingCalls + 1
  /\ hosting' = "pending"
  /\ stdout' = IF Truthy(isGreen') THEN Append(stdout, GreenNotice) ELSE stdout

\* a main without the check of lines 1098-1102
CheckUrlsAndLaunch_NoCheck(u) ==
  /\ CallGreenHosting
  /\ pc' = "launch"
  /\ UNCHANGED <<exit, exitCode>>

\* lines 1098-1117 for the list u: exit when it is empty, else call
\* greenHosting (not awaited) and await puppeteer.launch
CheckUrlsAndLaunch(u) ==
  IF Len(u) = 0
  THEN /\ Exits("NoUrlsFound", 1)
       /\ UNCHANGED <<pc, isGreen, hostingCalls, hosting, stdout>>
  ELSE /\ CallGreenHosting
       /\ pc' = "launch"
       /\ UNCHANGED <<exit, exitCode>>

\* main up to its first await: the file branch reads the file, the other
\* branch calls fetchSitemapUrls
MainStart ==
  /\ Running /\ pc = "main"
  /\ IF siteUrl = "null" /\ sourceFile # "none"
     THEN \/ /\ urls' = FilterValid(fileLines)      \* readUrlsFromFile returns
             /\ pc' = "fileRead"
             /\ UNCHANGED <<exit, exitCode, sitemapCalled, crawl>>
          \/ /\ Exits("ReadError", 1)               \* readFileSync throws
             /\ UNCHANGED <<pc, urls, sitemapCalled, crawl>>
     ELSE IF FORCE_CRAWLER
     THEN /\ crawl' = "running"                     \* urls is still []
          /\ pc' = "crawl"
          /\ UNCHANGED <<exit, exitCode, urls, sitemapCalled>>
     ELSE /\ sitemapCalled' = TRUE
          /\ pc' = "sitemap"
          /\ UNCHANGED <<exit, exitCode, urls, crawl>>
  /\ UNCHANGED <<config, call, started, hosting, siteUrl, sites, crawledUrls, isGreen,
                 hostingCalls, browser, cache, co2Data, pass, i, tasks, results,
                 firstVisitResults, returnVisitResults, handed, failures, stdout>>

\* line 1082 onwards: siteUrl = new URL(urls[0]).origin throws a TypeError
\* when urls is empty, which nothing catches
AfterFileRead ==
  /\ Running /\ pc = "fileRead"
  /\ IF Len(urls) = 0
     THEN /\ Exits("Uncaught", 1)
          /\ UNCHANGED <<pc, siteUrl, isGreen, hostingCalls, hosting, stdout>>
     ELSE /\ siteUrl' = "fileOrigin"
          /\ CheckUrlsAndLaunch(urls)
  /\ UNCHANGED <<config, call, started, urls, sitemapCalled, sites, crawl, crawledUrls,
                 browser, cache, co2Data, pass, i, tasks, results,
                 firstVisitResults, returnVisitResults, handed, failures>>

\* fetchSitemapUrls settles: with the site map's URLs, or with [] after a
\* fetch or parse error; an empty list starts the crawl
SitemapSettles(found) ==
  /\ Running /\ pc = "sitemap"
  /\ sites' = found
  /\ urls' = found
  /\ IF Len(found) = 0
     THEN /\ crawl' = "running"
          /\ pc' = "crawl"
          /\ UNCHANGED <<exit, exitCode, isGreen, hostingCalls, hosting, stdout>>
     ELSE /\ CheckUrlsAndLaunch(found)
          /\ UNCHANGED crawl
  /\ UNCHANGED <<config, call, started, siteUrl, sitemapCalled, crawledUrls,
                 browser, cache, co2Data, pass, i, tasks, results,
                 firstVisitResults, returnVisitResults, handed, failures>>

SitemapFound ==
  \E k \in 0..MaxUrls : SitemapSettles(SubSeq(SitemapOrder, 1, k))

\* a fetchSitemapUrls without its try/catch: the error leaves main
SitemapError_Uncaught ==
  /\ Running /\ pc = "sitemap"
  /\ Exits("Uncaught", 1)
  /\ UNCHANGED <<config, call, started, hosting, pc, siteUrl, urls, sitemapCalled, sites, crawl,
                 crawledUrls, isGreen, hostingCalls, browser, cache, co2Data,
                 pass, i, tasks, results, firstVisitResults, returnVisitResults,
                 handed, failures, stdout>>

\* sitemap.fetch() throws: the catch of fetchSitemapUrls returns []
SitemapError == SitemapSettles(<< >>)

\* crawler.on("fetchcomplete"): requests already in flight when stop() is
\* called still complete
maxConcurrency == 3
FetchComplete ==
  /\ Running /\ pc = "crawl"
  /\ \/ crawl = "running"
     \/ crawl = "stopped" /\ Len(crawledUrls) < maxPages + maxConcurrency - 1
  /\ Len(crawledUrls) < MaxCrawl
  /\ \E u \in Urls :
       /\ \A k \in 1..Len(crawledUrls) : crawledUrls[k] # u
       /\ crawledUrls' = Append(crawledUrls, u)
  /\ crawl' = IF Len(crawledUrls') >= maxPages THEN "stopped" ELSE crawl
  /\ UNCHANGED <<config, call, started, hosting, pc, exit, exitCode, siteUrl, urls, sitemapCalled,
                 sites, isGreen, hostingCalls, browser, cache, co2Data, pass, i, tasks,
                 results, firstVisitResults, returnVisitResults, handed,
                 failures, stdout>>

\* crawler.on("complete"): emitted by a running crawler whose queue is
\* exhausted; a stopped crawler does not emit it
CrawlComplete ==
  /\ Running /\ pc = "crawl" /\ crawl = "running"
  /\ crawl' = "complete"
  /\ urls' = crawledUrls
  /\ CheckUrlsAndLaunch(crawledUrls)
  /\ UNCHANGED <<config, call, started, siteUrl, sitemapCalled, sites, crawledUrls,
                 browser, cache, co2Data, pass, i, tasks, results,
                 firstVisitResults, returnVisitResults, handed, failures>>

\* The crawler has been stopped and the requests that were in flight are
\* done: no timer, socket or listener is left that could emit "complete", so
\* the promise of crawlSiteForUrls stays pending, main() stays suspended in
\* its await, and Node ends the process with exit code 0 when the event
\* loop is empty
EventLoopDrains ==
  /\ Running /\ pc = "crawl" /\ crawl = "stopped"
  /\ Exits("EventLoopEmpty", 0)
  /\ UNCHANGED <<config, call, started, hosting, pc, siteUrl, urls, sitemapCalled, sites, crawl,
                 crawledUrls, isGreen, hostingCalls, browser, cache, co2Data,
                 pass, i, tasks, results, firstVisitResults, returnVisitResults,
                 handed, failures, stdout>>

\* ---- greenHosting (lines 880-899) -----------------------------------------
\* The promise of the lookup settles at some turn of the event loop while
\* main is suspended in one of its awaits.  Nothing reads the value it
\* resolves with: main holds the promise itself.
HostingFrame ==
  UNCHANGED <<config, call, started, pc, siteUrl, urls, sitemapCalled, sites, crawl,
              crawledUrls, isGreen, hostingCalls, browser, cache, co2Data, pass,
              i, tasks, results, firstVisitResults, returnVisitResults, handed,
              failures, stdout>>

\* await hosting(hostDomain, ...) resolves: greenHosting returns the answer
HostingResolves ==
  /\ Running /\ hosting = "pending"
  /\ hosting' \in {"green", "notGreen"}
  /\ UNCHANGED <<exit, exitCode>>
  /\ HostingFrame

\* await hosting(hostDomain, ...) rejects (network error, service down):
\* the promise main holds rejects, no handler is ever attached to it, and
\* Node ends the process on the unhandled rejection with exit code 1
HostingRejects ==
  /\ Running /\ hosting = "pending"
  /\ hosting' = "rejected"
  /\ Exits("UnhandledRejection", 1)
  /\ HostingFrame

\* ---- processInBatches (lines 1059-1069) ----------------------------------
\* items.slice(idx, idx + batchSize)
Batch(items, idx) ==
  SubSeq(items, idx + 1,
         IF idx + concurrency < Len(items) THEN idx + concurrency ELSE Len(items))

\* batch.map(item => taskFn(item)): every measurePage call of the group
\* items.slice(idx, idx + batchSize) runs up to its first await
StartGroup(items, idx, clear) ==
  [s \in Slots |->
     IF idx + s <= Len(items)
     THEN [IdleTask EXCEPT !.pc = "newPage", !.url = items[idx + s],
                           !.clearCache = clear]
     ELSE IdleTask]

Returned(t) == t.pc \in {"returnedNull", "returnedRecord"}
InFlight(t) == t.pc \notin {"idle", "returnedNull", "returnedRecord"}

RECURSIVE Collect(_, _)
RECURSIVE Collect_Reversed(_, _)
\* a runner that pushes the records of a group last entry first
Collect_Reversed(ts, s) ==
  IF s > concurrency THEN << >>
  ELSE Collect_Reversed(ts, s + 1)
       \o (IF ts[s].pc = "returnedRecord" THEN <<ts[s].ret>> ELSE << >>)

\* batchResults.filter(r => r !== null), in the order of the batch
Collect(ts, s) ==
  IF s > concurrency THEN << >>
  ELSE (IF ts[s].pc = "returnedRecord" THEN <<ts[s].ret>> ELSE << >>)
       \o Collect(ts, s + 1)

\* puppeteer.launch resolves: lines 1117-1129, the list is cut to maxPages
\* and the cold pass starts
LaunchResolves ==
  /\ Running /\ pc = "launch"
  /\ browser' = "launched"
  /\ urls' = Slice(urls, 0, maxPages)
  /\ pass' = "cold"
  /\ handed' = [handed EXCEPT !.cold = urls']
  /\ i' = 0
  /\ results' = << >>
  /\ tasks' = StartGroup(urls', 0, TRUE)
  /\ started' = [started EXCEPT !.cold = Batch(urls', 0)]
  /\ pc' = "batch"
  /\ UNCHANGED <<config, call, hosting, exit, exitCode, siteUrl, sitemapCalled, sites, crawl,
                 crawledUrls, isGreen, hostingCalls, cache, co2Data,
                 firstVisitResults, returnVisitResults, failures, stdout>>

LaunchRejects ==
  /\ Running /\ pc = "launch"
  /\ failures < MaxFailures
  /\ failures' = failures + 1
  /\ Exits("Uncaught", 1)
  /\ UNCHANGED <<config, call, started, hosting, pc, siteUrl, urls, sitemapCalled, sites, crawl, crawledUrls,
                 isGreen, hostingCalls, browser, cache, co2Data, pass, i, tasks,
                 results, firstVisitResults, returnVisitResults, handed, stdout>>

\* ---- measurePage (lines 915-1012) ----------------------------------------
TaskFrame ==
  UNCHANGED <<config, call, started, hosting, pc, siteUrl, urls, sitemapCalled, sites, crawl, crawledUrls,
              isGreen, hostingCalls, browser, pass, i, results,
              firstVisitResults, returnVisitResults, handed, stdout>>

Measuring(s) == Running /\ pc = "batch" /\ InFlight(tasks[s])

\* lines 951-985 for task t: attach the listener of the mode and call
\* page.goto; an unknown mode ends the process
ListenAndGoto(s, t) ==
  IF measureMode = "cdp"
  THEN /\ tasks' = [tasks EXCEPT ![s] = [t EXCEPT !.listener = TRUE, !.pc = "goto"]]
       /\ UNCHANGED <<exit, exitCode>>
  ELSE IF measureMode = "buffer"
  THEN /\ tasks' = [tasks EXCEPT ![s] = [t EXCEPT !.pc = "goto"]]
       /\ UNCHANGED <<exit, exitCode>>
  ELSE /\ Exits("UnsupportedMode", 1)
       /\ tasks' = [tasks EXCEPT ![s] = t]

\* browser.newPage() resolves
NewPageOk(s) ==
  /\ Measuring(s) /\ tasks[s].pc = "newPage"
  /\ tasks' = [tasks EXCEPT ![s].page = "open", ![s].pc = "setViewport"]
  /\ UNCHANGED <<exit, exitCode, cache, co2Data, failures>>
  /\ TaskFrame

\* page.setViewport() resolves
SetViewportOk(s) ==
  /\ Measuring(s) /\ tasks[s].pc = "setViewport"
  /\ tasks' = [tasks EXCEPT ![s].pc = "createCDPSession"]
  /\ UNCHANGED <<exit, exitCode, cache, co2Data, failures>>
  /\ TaskFrame

\* page.target().createCDPSession() resolves
CreateSessionOk(s) ==
  /\ Measuring(s) /\ tasks[s].pc = "createCDPSession"
  /\ tasks' = [tasks EXCEPT ![s].client = "attached", ![s].pc = "enable"]
  /\ UNCHANGED <<exit, exitCode, cache, co2Data, failures>>
  /\ TaskFrame

\* a measurePage that never sends the clear
NetworkEnableOk_NoClear(s) ==
  /\ Measuring(s) /\ tasks[s].pc = "enable"
  /\ ListenAndGoto(s, tasks[s])
  /\ UNCHANGED <<cache, co2Data, failures>>
  /\ TaskFrame

\* client.send('Network.enable') resolves: a cold load sends
\* Network.clearBrowserCache, a warm load goes on to navigate; "sent" holds
\* the clearing commands the measurement has sent to the browser
NetworkEnableOk(s) ==
  /\ Measuring(s) /\ tasks[s].pc = "enable"
  /\ IF tasks[s].clearCache
     THEN /\ tasks' = [tasks EXCEPT ![s].pc = "clearCache",
                                    ![s].sent = @ \cup {"Network.clearBrowserCache"}]
          /\ UNCHANGED <<exit, exitCode>>
     ELSE ListenAndGoto(s, tasks[s])
  /\ UNCHANGED <<cache, co2Data, failures>>
  /\ TaskFrame

\* client.send('Network.clearBrowserCache') resolves: the cache of the
\* whole browser is emptied
ClearCacheOk(s) ==
  /\ Measuring(s) /\ tasks[s].pc = "clearCache"
  /\ cache' = {}
  /\ ListenAndGoto(s, tasks[s])
  /\ UNCHANGED <<co2Data, failures>>
  /\ TaskFrame

\* one of the awaits of lines 930-940 rejects: the outer catch returns null
SetupRejects(s) ==
  /\ Measuring(s)
  /\ tasks[s].pc \in {"newPage", "setViewport", "createCDPSession", "enable",
                      "clearCache"}
  /\ failures < MaxFailures
  /\ failures' = failures + 1
  /\ tasks' = [tasks EXCEPT ![s].pc = "returnedNull"]
  /\ UNCHANGED <<exit, exitCode, cache, co2Data>>
  /\ TaskFrame

\* a listener that adds every length it is given
onLoadingFinished_Unchecked(totalBytes, encodedDataLength) ==
  totalBytes + encodedDataLength

\* onLoadingFinished(data), lines 960-964: the new value of totalBytes
onLoadingFinished(totalBytes, encodedDataLength) ==
  IF encodedDataLength >= 0 THEN totalBytes + encodedDataLength ELSE totalBytes

\* a Network.loadingFinished event of one of the lengths is delivered to the
\* attached listener; heard is the sum of the non-negative lengths delivered
LoadingFinishedOf(s, lengths, cap) ==
  /\ Measuring(s) /\ tasks[s].pc = "goto" /\ tasks[s].listener
  /\ \E encodedDataLength \in lengths :
       /\ tasks[s].totalBytes + encodedDataLength <= cap
       /\ tasks' = [tasks EXCEPT
                      ![s].totalBytes = onLoadingFinished(@, encodedDataLength),
                      ![s].heard = IF encodedDataLength >= 0
                                   THEN @ + encodedDataLength ELSE @]
       \* the browser keeps what it has loaded
       /\ cache' = IF encodedDataLength >= 0 THEN cache \cup {tasks[s].url}
                   ELSE cache
  /\ UNCHANGED <<exit, exitCode, co2Data, failures>>
  /\ TaskFrame

LoadingFinished(s) == LoadingFinishedOf(s, {-1, 1}, MaxBytes)

\* a Network.loadingFinished event of the session after client.off (line
\* 994) and before client.detach() has resolved: no listener is called
LoadingFinishedAfterOff(s) ==
  /\ Measuring(s) /\ tasks[s].pc = "detach" /\ measureMode = "cdp"
  /\ tasks[s].client = "attached" /\ ~tasks[s].listener
  /\ tasks[s].unheard < MaxUnheard
  /\ tasks' = [tasks EXCEPT ![s].unheard = @ + 1]
  /\ cache' = cache \cup {tasks[s].url}
  /\ UNCHANGED <<exit, exitCode, co2Data, failures>>
  /\ TaskFrame

\* page.on("response"), lines 969-974: the callback starts to read the body
Response(s) ==
  /\ Measuring(s) /\ tasks[s].pc = "goto" /\ measureMode = "buffer"
  /\ tasks[s].pending < MaxPending
  /\ tasks' = [tasks EXCEPT ![s].pending = @ + 1]
  /\ cache' = cache \cup {tasks[s].url}
  /\ UNCHANGED <<exit, exitCode, co2Data, failures>>
  /\ TaskFrame

\* response.buffer() resolves, whenever that is: totalBytes += buffer.length
BufferRead(s) ==
  /\ Measuring(s) /\ tasks[s].pending > 0
  /\ tasks[s].totalBytes < MaxBytes
  /\ tasks' = [tasks EXCEPT ![s].pending = @ - 1, ![s].totalBytes = @ + 1]
  /\ UNCHANGED <<exit, exitCode, cache, co2Data, failures>>
  /\ TaskFrame

\* response.buffer() rejects: catch {}
BufferFails(s) ==
  /\ Measuring(s) /\ tasks[s].pending > 0
  /\ tasks' = [tasks EXCEPT ![s].pending = @ - 1]
  /\ UNCHANGED <<exit, exitCode, cache, co2Data, failures>>
  /\ TaskFrame

\* page.goto resolves, lines 985-998: co2 = bytesToCO2(totalBytes, isGreen),
\* then the finally block removes the listener and calls client.detach()
GotoOk(s) ==
  /\ Measuring(s) /\ tasks[s].pc = "goto"
  /\ LET e == bytesToCO2(tasks[s].totalBytes, isGreen)
     IN  /\ co2Data' = e.co2Data
         /\ tasks' = [tasks EXCEPT ![s].co2 = e.ret,
                                   ![s].ownRating = e.co2Data.rating,
                                   ![s].touched = TRUE,
                                   ![s].listener = FALSE,
                                   ![s].pc = "detach"]
  /\ UNCHANGED <<exit, exitCode, cache, failures>>
  /\ TaskFrame

\* page.goto rejects (error or timeout), lines 989-998: co2 stays null
GotoRejects(s) ==
  /\ Measuring(s) /\ tasks[s].pc = "goto"
  /\ failures < MaxFailures
  /\ failures' = failures + 1
  /\ tasks' = [tasks EXCEPT ![s].listener = FALSE, ![s].pc = "detach"]
  /\ UNCHANGED <<exit, exitCode, cache, co2Data>>
  /\ TaskFrame

\* client.detach() resolves: page.close() is called
DetachOk(s) ==
  /\ Measuring(s) /\ tasks[s].pc = "detach"
  /\ tasks' = [tasks EXCEPT ![s].client = "detached", ![s].pc = "close"]
  /\ UNCHANGED <<exit, exitCode, cache, co2Data, failures>>
  /\ TaskFrame

\* a measurePage without the outer catch: the rejection of client.detach()
\* rejects measurePage, Promise.all and main
DetachRejects_Uncaught(s) ==
  /\ Measuring(s) /\ tasks[s].pc = "detach"
  /\ failures < MaxFailures
  /\ failures' = failures + 1
  /\ tasks' = [tasks EXCEPT ![s].pc = "rejected", ![s].pending = 0]
  /\ Exits("Uncaught", 1)
  /\ UNCHANGED <<cache, co2Data>>
  /\ TaskFrame

\* client.detach() rejects inside finally: page.close() is skipped and the
\* outer catch returns null
DetachRejects(s) ==
  /\ Measuring(s) /\ tasks[s].pc = "detach"
  /\ failures < MaxFailures
  /\ failures' = failures + 1
  /\ tasks' = [tasks EXCEPT ![s].pc = "returnedNull", ![s].pending = 0]
  /\ UNCHANGED <<exit, exitCode, cache, co2Data>>
  /\ TaskFrame

\* page.close() resolves, lines 1002-1007: the record is returned; its
\* rating is what co2Data holds now
CloseOk(s) ==
  /\ Measuring(s) /\ tasks[s].pc = "close"
  /\ LET rated == modelSupportsCarbonRating /\ carbonRatings
         rec   == [url    |-> tasks[s].url,
                   bytes  |-> tasks[s].totalBytes,
                   co2    |-> tasks[s].co2,
                   rating |-> IF rated THEN carbonRating(NullNum) ELSE "null"]
     IN  tasks' = [tasks EXCEPT ![s].page = "closed",
                                ![s].ret = rec,
                                ![s].touched = @ \/ rated,
                                ![s].pending = 0,
                                ![s].pc = "returnedRecord"]
  /\ UNCHANGED <<exit, exitCode, cache, co2Data, failures>>
  /\ TaskFrame

\* page.close() rejects: the outer catch returns null
CloseRejects(s) ==
  /\ Measuring(s) /\ tasks[s].pc = "close"
  /\ failures < MaxFailures
  /\ failures' = failures + 1
  /\ tasks' = [tasks EXCEPT ![s].pc = "returnedNull", ![s].pending = 0]
  /\ UNCHANGED <<exit, exitCode, cache, co2Data>>
  /\ TaskFrame

\* ---- processInBatches: the group is complete -----------------------------
\* Promise.all resolves once every measurePage of the group has returned:
\* the non-null results are pushed and the next group is started, or the
\* results are returned to main
GroupStep(settled) ==
  /\ Running /\ pc = "batch"
  /\ settled
  /\ LET all == results \o Collect(tasks, 1)
     IN  IF i + concurrency < Len(urls)
         THEN /\ results' = all
              /\ i' = i + concurrency
              /\ tasks' = StartGroup(urls, i + concurrency, pass = "cold")
              /\ started' = [started EXCEPT
                               ![pass] = @ \o Batch(urls, i + concurrency)]
              /\ UNCHANGED <<pc, firstVisitResults, returnVisitResults>>
         ELSE /\ results' = << >>
              /\ i' = 0
              /\ tasks' = [s \in Slots |-> IdleTask]
              /\ pc' = "output"
              /\ UNCHANGED started
              /\ IF pass = "cold"
                 THEN firstVisitResults' = all /\ UNCHANGED returnVisitResults
                 ELSE returnVisitResults' = all /\ UNCHANGED firstVisitResults
  /\ UNCHANGED <<config, call, hosting, exit, exitCode, siteUrl, urls, sitemapCalled, sites, crawl,
                 crawledUrls, isGreen, hostingCalls, browser, cache, co2Data,
                 pass, handed, failures, stdout>>

\* a runner that goes on as soon as one measurement of the group has returned
GroupCompletes_First == GroupStep(\E s \in Slots : Returned(tasks[s]))

\* await Promise.all(...): every measurement of the group has settled;
\* measurePage never rejects, it returns a record or null
GroupCompletes == GroupStep(\A s \in Slots : ~InFlight(tasks[s]))

\* ---- outputResults (lines 1019-1040) -------------------------------------
Line(p, r) ==
  [kind |-> "page", pass |-> p, url |-> r.url, bytes |-> r.bytes, co2 |-> r.co2,
   rating |-> IF carbonRatings /\ r.rating # "null" THEN r.rating ELSE "none",
   n |-> 0]

RECURSIVE Printable(_)
\* the records printed before co2.toFixed(3) throws on a null co2
Printable(rs) ==
  IF rs = << >> \/ IsNull(Head(rs).co2) THEN << >>
  ELSE <<Head(rs)>> \o Printable(Tail(rs))

\* main, lines 1130-1139: the results of the pass are sorted in place and
\* printed; then the warm pass starts, or the browser is closed
OutputResults ==
  /\ Running /\ pc = "output"
  /\ LET sorted  == SortResults(IF pass = "cold" THEN firstVisitResults
                                ELSE returnVisitResults)
         printed == Printable(sorted)
     IN  /\ IF pass = "cold"
            THEN firstVisitResults' = sorted /\ UNCHANGED returnVisitResults
            ELSE returnVisitResults' = sorted /\ UNCHANGED firstVisitResults
         /\ stdout' = stdout \o [k \in 1..Len(printed) |-> Line(pass, printed[k])]
         /\ IF Len(printed) < Len(sorted)
            THEN \* TypeError: co2 is null
                 /\ Exits("Uncaught", 1)
                 /\ UNCHANGED <<pc, pass, tasks, handed, started>>
            ELSE IF pass = "cold"
            THEN /\ pass' = "warm"
                 /\ handed' = [handed EXCEPT !.warm = urls]
                 /\ tasks' = StartGroup(urls, 0, FALSE)
                 /\ started' = [started EXCEPT !.warm = Batch(urls, 0)]
                 /\ pc' = "batch"
                 /\ UNCHANGED <<exit, exitCode>>
            ELSE /\ pc' = "closing"
                 /\ UNCHANGED <<exit, exitCode, pass, tasks, handed, started>>
  /\ UNCHANGED <<config, call, hosting, siteUrl, urls, sitemapCalled, sites, crawl, crawledUrls,
                 isGreen, hostingCalls, browser, cache, co2Data, i, results,
                 failures>>

\* ---- main: the summary (lines 1139-1154) ---------------------------------
RECURSIVE SumBytes(_)
SumBytes(rs) == IF rs = << >> THEN 0 ELSE Head(rs).bytes + SumBytes(Tail(rs))

RECURSIVE SumCO2(_)
\* sum + r.co2: a null co2 adds 0
SumCO2(rs) ==
  IF rs = << >> THEN 0
  ELSE (IF IsNull(Head(rs).co2) THEN 0 ELSE Head(rs).co2[1]) + SumCO2(Tail(rs))

\* carbonRating(sum / n): with n = 0 the mean is NaN, every comparison is
\* false and the rating is "F"
RatingOfMean(sum, n) ==
  LET t == IF carbonModel = "swd3" THEN SWDM3_RATINGS ELSE SWDM4_RATINGS
      le(k) == n > 0 /\ sum <= t[k] * n
  IN  IF le(1) THEN "A+"
      ELSE IF le(2) THEN "A"
      ELSE IF le(3) THEN "B"
      ELSE IF le(4) THEN "C"
      ELSE IF le(5) THEN "D"
      ELSE IF le(6) THEN "E"
      ELSE "F"

\* the summary block: the means are kept as sum and count (n = 0: NaN)
Summary ==
  LET n == Len(firstVisitResults)
  IN  [kind |-> "summary", pass |-> "cold", url |-> 0,
       bytes |-> SumBytes(firstVisitResults),
       co2 |-> Num(SumCO2(firstVisitResults)),
       rating |-> IF modelSupportsCarbonRating /\ carbonRatings
                  THEN RatingOfMean(SumCO2(firstVisitResults), n) ELSE "none",
       n |-> n]

\* browser.close() resolves: the summary is printed and main returns
BrowserCloses ==
  /\ Running /\ pc = "closing"
  /\ browser' = "closed"
  /\ stdout' = Append(stdout, Summary)
  /\ pc' = "done"
  /\ Exits("completed", 0)
  /\ UNCHANGED <<config, call, started, hosting, siteUrl, urls, sitemapCalled, sites, crawl, crawledUrls,
                 isGreen, hostingCalls, cache, co2Data, pass, i, tasks, results,
                 firstVisitResults, returnVisitResults, handed, failures>>

\* ---- specification -------------------------------------------------------
Next ==
  \/ ProcessArgs
  \/ MainStart
  \/ AfterFileRead
  \/ SitemapFound
  \/ SitemapError
  \/ FetchComplete
  \/ CrawlComplete
  \/ EventLoopDrains
  \/ HostingResolves
  \/ HostingRejects
  \/ LaunchResolves
  \/ LaunchRejects
  \/ \E s \in Slots : NewPageOk(s)
  \/ \E s \in Slots : SetViewportOk(s)
  \/ \E s \in Slots : CreateSessionOk(s)
  \/ \E s \in Slots : NetworkEnableOk(s)
  \/ \E s \in Slots : ClearCacheOk(s)
  \/ \E s \in Slots : SetupRejects(s)
  \/ \E s \in Slots : LoadingFinished(s)
  \/ \E s \in Slots : Response(s)
  \/ \E s \in Slots : BufferRead(s)
  \/ \E s \in Slots : BufferFails(s)
  \/ \E s \in Slots : GotoOk(s)
  \/ \E s \in Slots : GotoRejects(s)
  \/ \E s \in Slots : DetachOk(s)
  \/ \E s \in Slots : DetachRejects(s)
  \/ \E s \in Slots : CloseOk(s)
  \/ \E s \in Slots : CloseRejects(s)
  \/ GroupCompletes
  \/ OutputResults
  \/ BrowserCloses

Spec == Init /\ [][Next]_vars

\* ---- one pass on its own -------------------------------------------------
\* The cold pass over a site map of up to MaxBatchUrls URLs, from the state
\* in which LaunchResolves leaves the run, up to the return of
\* processInBatches: groups of three concurrent measurements
BatchConfigs == {<<"cdp", "swd", TRUE>>, <<"buffer", "swd", TRUE>>}

InitBatch ==
  /\ positional = "valid"
  /\ sourceFile = "none" /\ fileLines = << >>
  /\ \E c \in BatchConfigs :
       measureMode = c[1] /\ carbonModel = c[2] /\ carbonRatings = c[3]
  /\ \E n \in 1..MaxBatchUrls :
       /\ urls = [k \in 1..n |-> n + 1 - k]
       /\ maxPages = n
  /\ pc = "batch"
  /\ exit = "running"
  /\ exitCode = 0
  /\ siteUrl = "site"
  /\ sitemapCalled = TRUE
  /\ sites = urls
  /\ crawl = "none"
  /\ crawledUrls = << >>
  /\ isGreen = "promise"
  /\ hostingCalls = 1
  /\ hosting = "pending"
  /\ browser = "launched"
  /\ cache = {}
  /\ co2Data = [total |-> NullNum, rating |-> "undefined"]
  /\ pass = "cold"
  /\ i = 0
  /\ tasks = StartGroup(urls, 0, TRUE)
  /\ results = << >>
  /\ firstVisitResults = << >>
  /\ returnVisitResults = << >>
  /\ handed = [cold |-> urls, warm |-> << >>]
  /\ started = [cold |-> Batch(urls, 0), warm |-> << >>]
  /\ failures = 0
  /\ stdout = <<GreenNotice>>
  /\ call = NoCall

NextBatch ==
  \/ \E s \in Slots : NewPageOk(s)
  \/ \E s \in Slots : SetViewportOk(s)
  \/ \E s \in Slots : CreateSessionOk(s)
  \/ \E s \in Slots : NetworkEnableOk(s)
  \/ \E s \in Slots : ClearCacheOk(s)
  \/ \E s \in Slots : SetupRejects(s)
  \/ \E s \in Slots : LoadingFinished(s)
  \/ \E s \in Slots : Response(s)
  \/ \E s \in Slots : BufferRead(s)
  \/ \E s \in Slots : BufferFails(s)
  \/ \E s \in Slots : GotoOk(s)
  \/ \E s \in Slots : GotoRejects(s)
  \/ \E s \in Slots : DetachOk(s)
  \/ \E s \in Slots : DetachRejects(s)
  \/ \E s \in Slots : CloseOk(s)
  \/ \E s \in Slots : CloseRejects(s)
  \/ GroupCompletes

SpecBatch == InitBatch /\ [][NextBatch]_vars

\* ---- one pass in cdp mode, with the protocol events followed --------------
\* The cold pass over up to MaxCdpUrls pages: events of lengths -1, 1 and 2,
\* several per page, and events that arrive after the listener was removed
InitCdp ==
  /\ InitBatch
  /\ measureMode = "cdp"
  /\ Len(urls) <= MaxCdpUrls

NextCdp ==
  \/ \E s \in Slots : NewPageOk(s)
  \/ \E s \in Slots : SetViewportOk(s)
  \/ \E s \in Slots : CreateSessionOk(s)
  \/ \E s \in Slots : NetworkEnableOk(s)
  \/ \E s \in Slots : ClearCacheOk(s)
  \/ \E s \in Slots : SetupRejects(s)
  \/ \E s \in Slots : LoadingFinishedOf(s, {-1, 1, 2}, MaxCdpBytes)
  \/ \E s \in Slots : LoadingFinishedAfterOff(s)
  \/ \E s \in Slots : GotoOk(s)
  \/ \E s \in Slots : GotoRejects(s)
  \/ \E s \in Slots : DetachOk(s)
  \/ \E s \in Slots : DetachRejects(s)
  \/ \E s \in Slots : CloseOk(s)
  \/ \E s \in Slots : CloseRejects(s)
  \/ GroupCompletes

SpecCdp == InitCdp /\ [][NextCdp]_vars

\* ---- the estimator on its own --------------------------------------------
\* bytesToCO2 and carbonRating called directly, in any order and any number
\* of times, under every model and rating option: the two functions share
\* the module level co2Data
GreenFlags == {"false", "true", "promise"}

\* CO2e values (thousandths of a gram) around every threshold of both tables
RatingInputs ==
  {0} \cup UNION {{SWDM3_RATINGS[k] - 1, SWDM3_RATINGS[k], SWDM3_RATINGS[k] + 1,
                   SWDM4_RATINGS[k] - 1, SWDM4_RATINGS[k], SWDM4_RATINGS[k] + 1}
                    : k \in 1..6}

InitEstimator ==
  /\ positional = "valid"
  /\ sourceFile = "none" /\ fileLines = << >>
  /\ maxPages = 1
  /\ measureMode = "cdp"
  /\ carbonModel \in {"1byte", "swd3", "swd", "swd4"}
  /\ carbonRatings \in BOOLEAN
  /\ pc = "args"
  /\ exit = "running"
  /\ exitCode = 0
  /\ siteUrl = "null"
  /\ urls = << >>
  /\ sitemapCalled = FALSE
  /\ sites = << >>
  /\ crawl = "none"
  /\ crawledUrls = << >>
  /\ isGreen = "false"
  /\ hostingCalls = 0
  /\ hosting = "none"
  /\ browser = "none"
  /\ cache = {}
  /\ co2Data = [total |-> NullNum, rating |-> "undefined"]
  /\ pass = "none"
  /\ i = 0
  /\ tasks = [s \in Slots |-> IdleTask]
  /\ results = << >>
  /\ firstVisitResults = << >>
  /\ returnVisitResults = << >>
  /\ handed = [cold |-> << >>, warm |-> << >>]
  /\ started = [cold |-> << >>, warm |-> << >>]
  /\ failures = 0
  /\ stdout = << >>
  /\ call = NoCall

EstimatorFrame ==
  UNCHANGED <<config, pc, exit, exitCode, siteUrl, urls, sitemapCalled, sites,
              crawl, crawledUrls, isGreen, hostingCalls, hosting, browser,
              cache, pass, i, tasks, results, firstVisitResults,
              returnVisitResults, handed, started, failures, stdout>>

\* bytesToCO2(bytes, green)
CallBytesToCO2 ==
  /\ \E bytes \in 0..MaxEstimateBytes, g \in GreenFlags :
       LET e == bytesToCO2(bytes, g)
       IN  /\ co2Data' = e.co2Data
           /\ call' = [fn |-> "bytesToCO2", bytes |-> bytes, green |-> g,
                       co2e |-> NullNum, ret |-> e.ret, rating |-> "none",
                       modelCalls |-> e.modelCalls, greenArg |-> e.greenArg]
  /\ EstimatorFrame

\* carbonRating(co2e), and carbonRating() with co2e = null
CallCarbonRating ==
  /\ \E v \in {Num(x) : x \in RatingInputs} \cup {NullNum} :
       call' = [NoCall EXCEPT !.fn = "carbonRating", !.co2e = v,
                              !.rating = carbonRating(v)]
  /\ UNCHANGED co2Data
  /\ EstimatorFrame

NextEstimator == CallBytesToCO2 \/ CallCarbonRating

SpecEstimator == InitEstimator /\ [][NextEstimator]_vars

\* ---- the reporter on its own ---------------------------------------------
\* outputResults for the results of one pass, returned in any order for any
\* list of distinct URLs (a URL file lists them in any order), some of them
\* in upper-case spelling, and with failed navigations among them
ReporterUrls == {1, 2, 11, 12}

\* the record of a page of one unit of transfer, and the record of a failed
\* navigation that returned before any page was estimated
ReporterRecord(u, ok) ==
  LET e == bytesToCO2(1, "promise")
  IN  IF ok THEN [url |-> u, bytes |-> 1, co2 |-> e.ret,
                  rating |-> e.co2Data.rating]
      ELSE [url |-> u, bytes |-> 0, co2 |-> NullNum, rating |-> "undefined"]

ReporterLists ==
  UNION {{l \in [1..n -> ReporterUrls] :
            \A j, k \in 1..n : j # k => l[j] # l[k]} : n \in 1..MaxReportLen}

InitReporter ==
  /\ positional = "none"
  /\ sourceFile = "file"
  /\ measureMode = "cdp" /\ carbonModel = "swd" /\ carbonRatings = TRUE
  /\ urls \in ReporterLists
  /\ fileLines = urls
  /\ maxPages = MaxReportLen
  /\ pc = "output"
  /\ exit = "running"
  /\ exitCode = 0
  /\ siteUrl = "fileOrigin"
  /\ sitemapCalled = FALSE
  /\ sites = << >>
  /\ crawl = "none"
  /\ crawledUrls = << >>
  /\ isGreen = "promise"
  /\ hostingCalls = 1
  /\ hosting = "pending"
  /\ browser = "launched"
  /\ cache = {urls[k] : k \in 1..Len(urls)}
  /\ pass \in {"cold", "warm"}
  /\ i = 0
  /\ tasks = [s \in Slots |-> IdleTask]
  /\ results = << >>
  /\ \E ok \in [1..Len(urls) -> BOOLEAN] :
       LET rs == [k \in 1..Len(urls) |-> ReporterRecord(urls[k], ok[k])]
           cold == SortResults([k \in 1..Len(urls) |->
                                  ReporterRecord(urls[k], TRUE)])
       IN  IF pass = "cold"
           THEN /\ co2Data = IF \E k \in 1..Len(urls) : ok[k]
                             THEN bytesToCO2(1, "promise").co2Data
                             ELSE [total |-> NullNum, rating |-> "undefined"]
                /\ firstVisitResults = rs
                /\ returnVisitResults = << >>
                /\ handed = [cold |-> urls, warm |-> << >>]
                /\ started = [cold |-> urls, warm |-> << >>]
                /\ stdout = <<GreenNotice>>
           ELSE /\ co2Data = bytesToCO2(1, "promise").co2Data
                /\ firstVisitResults = cold
                /\ returnVisitResults = rs
                /\ handed = [cold |-> urls, warm |-> urls]
                /\ started = [cold |-> urls, warm |-> urls]
                /\ stdout = <<GreenNotice>>
                              \o [k \in 1..Len(cold) |-> Line("cold", cold[k])]
  /\ failures = 0
  /\ call = NoCall

NextReporter == OutputResults

SpecReporter == InitReporter /\ [][NextReporter]_vars

\* ---- properties ----------------------------------------------------------
Rated == modelSupportsCarbonRating /\ carbonRatings

\* C1: batch failure isolation.  When the batch runner has returned, its
\* sequence holds no record for a URL whose navigation failed (such a record
\* is one whose co2 is null: only a rejected page.goto leaves co2 unset).
C1_FailedNavigationOmitted ==
  (pc = "output" /\ pass = "cold") =>
     \A k \in 1..Len(firstVisitResults) : ~IsNull(firstVisitResults[k].co2)

\* C2: the rating stored in a page's record is the rating the model produced
\* for that page's own estimate, whatever the siblings of the group did
\* between the estimate and the read of co2Data.
C2_RatingIsOwnRating ==
  \A s \in Slots :
    (Rated /\ tasks[s].pc = "returnedRecord" /\ ~IsNull(tasks[s].ret.co2))
      => tasks[s].ret.rating = tasks[s].ownRating

\* C3: group barrier.  The measurements that are running or have returned
\* are those of the group items[i .. i+concurrency-1], every earlier URL has
\* been dealt with, and a measurement starts only in a step before which no
\* measurement is in flight; so at most `concurrency` are in flight.
C3_GroupInv ==
  pc = "batch" =>
    /\ \A s \in Slots :
         IF i + s <= Len(urls)
         THEN tasks[s].pc # "idle" /\ tasks[s].url = urls[i + s]
         ELSE tasks[s].pc = "idle"
    /\ Len(results) <= i
    /\ Cardinality({s \in Slots : InFlight(tasks[s])}) <= concurrency

C3_StartsOnlyWhenSettled ==
  (\E s \in Slots : tasks'[s].pc = "newPage" /\ tasks'[s] # tasks[s])
     => (\A s \in Slots : ~InFlight(tasks[s]))

C3_GroupBarrier == []C3_GroupInv /\ [][C3_StartsOnlyWhenSettled]_vars

\* the second group runs after a first group in which a measurement failed
C3_Witness ==
  /\ pc = "batch" /\ i = concurrency
  /\ Len(results) < concurrency
  /\ \E s \in Slots : InFlight(tasks[s])

\* C4: scoped release.  When measurePage has returned, the page it opened
\* is closed and the session it created is detached.
C4_ScopedRelease ==
  \A s \in Slots :
    Returned(tasks[s]) => tasks[s].page # "open" /\ tasks[s].client # "attached"

\* C5: no shared mutable state.  No two measurements of one group access
\* the same module level variable (co2Data is the only candidate).
C5_NoSharedMutableState ==
  Cardinality({s \in Slots : tasks[s].touched}) <= 1

\* C6: resolver precedence.  With both a URL file and a positional site URL,
\* neither the site map nor the crawl is used, and the list assessed is the
\* file's valid URLs (cut to the page budget).
C6_FileTakesPrecedence ==
  (positional = "valid" /\ sourceFile = "file") =>
     /\ ~sitemapCalled
     /\ crawl = "none"
     /\ pass # "none" => handed.cold = Slice(FilterValid(fileLines), 0, maxPages)

\* C7: resolver fallback.  With only a site argument: the step that settles
\* the site map fetch never ends the process; the crawl runs only after the
\* site map step yielded no URL; and a completed crawl's URLs are the
\* resolver's result.
OnlySite == positional = "valid" /\ sourceFile = "none"

C7_FallbackInv ==
  OnlySite =>
     /\ crawl # "none" => sitemapCalled /\ sites = << >>
     /\ crawl \in {"running", "stopped"} => urls = << >>
     /\ crawl = "complete" => urls = crawledUrls

C7_SitemapNeverFatal ==
  (OnlySite /\ pc = "sitemap") => exit' = "running"

C7_ResolverFallback == []C7_FallbackInv /\ [][C7_SitemapNeverFatal]_vars

\* a crawl that found a URL after an empty site map, its result handed on
C7_Witness ==
  /\ OnlySite /\ crawl = "complete" /\ sites = << >>
  /\ Len(urls) > 0 /\ pc = "launch"

\* C8: page budget.  The list handed to the cold and to the warm pass is
\* the first min(maxPages, number discovered) discovered URLs, in order.
Discovered ==
  IF siteUrl = "fileOrigin" THEN FilterValid(fileLines)
  ELSE IF crawl = "complete" THEN crawledUrls
  ELSE sites

FirstN(s, n) == [k \in 1..(IF n < Len(s) THEN n ELSE Len(s)) |-> s[k]]

C8_PageBudget ==
  /\ pass # "none" => handed.cold = FirstN(Discovered, maxPages)
  /\ pass = "warm" => handed.warm = FirstN(Discovered, maxPages)

\* the warm pass runs on a list that the budget has shortened, after a cold
\* pass that measured every URL of that list
C8_Witness ==
  /\ pass = "warm" /\ Len(Discovered) > maxPages
  /\ Len(handed.warm) = maxPages
  /\ Len(firstVisitResults) = maxPages

\* C9: NoUrlsFound is terminal.  A site map and a crawl that both yield no
\* URL end the run with a non-zero exit code, before any hosting lookup,
\* browser launch, measurement or output, and nothing happens afterwards.
C9_NothingStarted ==
  /\ (crawl = "complete" /\ crawledUrls = << >>) => exit = "NoUrlsFound"
  /\ exit = "NoUrlsFound" =>
       /\ exitCode # 0
       /\ hostingCalls = 0 /\ isGreen = "false"
       /\ browser = "none"
       /\ pass = "none"
       /\ \A s \in Slots : tasks[s].pc = "idle"
       /\ stdout = << >>

C9_NothingAfterwards == exit = "NoUrlsFound" => UNCHANGED vars

C9_NoUrlsFoundTerminal == []C9_NothingStarted /\ [][C9_NothingAfterwards]_vars

\* the run has ended because site map and crawl found nothing
C9_Witness ==
  exit = "NoUrlsFound" /\ sitemapCalled /\ crawl = "complete"

\* C10: empty URL file.  With only a URL file that has no valid line, the
\* run that has read the file ends as NoUrlsFound and uses neither the site
\* map nor the crawl.
C10_EmptyFileIsNoUrlsFound ==
  (positional = "none" /\ sourceFile = "file" /\ FilterValid(fileLines) = << >>)
    => /\ ~sitemapCalled /\ crawl = "none"
       /\ exit \in {"running", "ReadError", "NoUrlsFound"}

\* C11: hosting lookup failure is non-fatal.  A lookup that has rejected has
\* not ended the run, and the green flag the estimates are made with is then
\* false.
C11_HostingFailureNonFatal ==
  hosting = "rejected" => exit # "UnhandledRejection" /\ ~Truthy(isGreen)

\* C12: the green flag is the lookup's result.  Once the lookup has
\* answered, the flag the estimates are made with is the boolean it reported,
\* and the notice "Hosting is green" is on the output only if it reported
\* green.
GreenNoticePrinted == \E k \in 1..Len(stdout) : stdout[k].kind = "greenNotice"

C12_GreenFlagIsLookupResult ==
  hosting \in {"green", "notGreen"} =>
     /\ isGreen = (IF hosting = "green" THEN "true" ELSE "false")
     /\ GreenNoticePrinted => hosting = "green"

\* C13: pass semantics.  Every cold-pass measurement that navigates has sent
\* the clear after its session was set up and before its navigation started,
\* and no warm-pass measurement sends any clear.
\* The statement as made: the clear covers the browser's cache and storage.
NavigationStarted(t) == t.pc \in {"goto", "detach", "close", "returnedRecord"}

StorageClears ==
  {"Storage.clearDataForOrigin", "Network.clearBrowserCookies",
   "Storage.clearCookies"}

C13_ColdClearsCacheAndStorage ==
  \A s \in Slots :
    /\ (pass = "cold" /\ NavigationStarted(tasks[s]))
          => /\ "Network.clearBrowserCache" \in tasks[s].sent
             /\ tasks[s].sent \cap StorageClears # {}
    /\ pass = "warm" => tasks[s].sent = {}

\* C13 as amended: the clear is that of the browser cache
\* (Network.clearBrowserCache); storage is not cleared.
C13_PassInv ==
  \A s \in Slots :
    /\ tasks[s].pc # "idle" => tasks[s].clearCache = (pass = "cold")
    /\ (pass = "cold" /\ NavigationStarted(tasks[s]))
          => tasks[s].sent = {"Network.clearBrowserCache"}
    /\ pass = "warm" => tasks[s].sent = {}

C13_ClearAfterSetupBeforeGoto ==
  \A s \in Slots :
    (tasks'[s].sent \ tasks[s].sent # {})
      => /\ pass = "cold"
         /\ tasks[s].pc = "enable" /\ tasks[s].page = "open"
         /\ tasks[s].client = "attached"
         /\ tasks'[s].pc = "clearCache"

C13_ColdClearsCache == []C13_PassInv /\ [][C13_ClearAfterSetupBeforeGoto]_vars

\* a warm measurement navigates, having sent no clear, after a cold pass
\* that measured a page
C13_Witness ==
  /\ pass = "warm" /\ Len(firstVisitResults) > 0
  /\ \E s \in Slots : tasks[s].pc = "goto" /\ tasks[s].sent = {}

\* C14: the warm pass is warmed by the cold pass.  A warm measurement runs
\* only in the warm pass, which starts after the cold pass has returned; and
\* whenever a URL's warm navigation has started and has not yet loaded
\* anything, the browser cache holds what that URL's cold load stored.
ColdStored(u) ==
  \E k \in 1..Len(firstVisitResults) :
     firstVisitResults[k].url = u /\ firstVisitResults[k].bytes > 0

C14_WarmedByColdPass ==
  \A s \in Slots :
    /\ (tasks[s].pc # "idle" /\ ~tasks[s].clearCache) => pass = "warm"
    /\ (pass = "warm" /\ tasks[s].pc = "goto" /\ tasks[s].totalBytes = 0
          /\ tasks[s].pending = 0 /\ ColdStored(tasks[s].url))
         => tasks[s].url \in cache

\* C15: summary liveness.  A run in which a cold-pass page load succeeded
\* and whose hosting lookup did not fail has not ended without the summary
\* block on its output, whatever other page loads failed.
ColdSuccess ==
  \E k \in 1..Len(firstVisitResults) : ~IsNull(firstVisitResults[k].co2)

SummaryPrinted == \E k \in 1..Len(stdout) : stdout[k].kind = "summary"

C15_SummaryAfterAnySuccess ==
  (exit # "running" /\ hosting # "rejected" /\ ColdSuccess) => SummaryPrinted

\* C16: failed pages are excluded from the averages.  From the return of
\* the cold pass on, the figures the summary takes from firstVisitResults
\* (pages assessed, sum of bytes, sum of CO2e) are those of the cold-pass
\* loads that succeeded: a page whose navigation failed adds to none.
SucceededCold == SelectSeq(firstVisitResults, LAMBDA r : ~IsNull(r.co2))

ColdPassReturned == (pass = "cold" /\ pc = "output") \/ pass = "warm"

C16_FailedPagesExcluded ==
  ColdPassReturned =>
     /\ Summary.n = Len(SucceededCold)
     /\ Summary.bytes = SumBytes(SucceededCold)
     /\ Summary.co2 = Num(SumCO2(SucceededCold))

\* C17: no-data summary.  When the cold pass has returned no successful
\* measurement, no summary block with means (0/0) or an overall rating is
\* printed, and the run, once ended, has a non-zero exit code.
C17_NoDataSummary ==
  (ColdPassReturned /\ ~ColdSuccess) =>
     /\ \A k \in 1..Len(stdout) :
          stdout[k].kind = "summary" =>
             stdout[k].n > 0 /\ stdout[k].rating \notin {"A+", "A", "B", "C", "D", "E", "F"}
     /\ exit # "running" => exitCode # 0

\* C18: the summary is a function of the cold-pass results only.  A run
\* with a supported measurement mode whose warm pass has started ends,
\* whatever the warm pass yields (warm failures included), with the one
\* summary its cold-pass results determine as the last block of its output.
C18_SummaryOfColdPassOnly ==
  (pass = "warm" /\ exit # "running" /\ hosting # "rejected"
     /\ measureMode \in {"cdp", "buffer"}) =>
     /\ Len(stdout) > 0
     /\ stdout[Len(stdout)] = Summary

\* C19: zero-byte special case.  Under every model and for every green
\* flag, bytesToCO2(0, green) returns 0, makes no call of the external
\* model, and leaves the rating "A+" for the models with ratings (swd3, swd,
\* swd4) and null for the one without (1byte).
C19_ZeroBytes ==
  (call.fn = "bytesToCO2" /\ call.bytes = 0) =>
     /\ call.ret = Num(0)
     /\ call.modelCalls = 0
     /\ co2Data.total = Num(0)
     /\ co2Data.rating = IF carbonModel \in {"swd3", "swd", "swd4"}
                         THEN "A+" ELSE "null"

\* zero bytes estimated with a true green flag under the model without
\* ratings
C19_Witness ==
  /\ call.fn = "bytesToCO2" /\ call.bytes = 0 /\ call.green = "true"
  /\ carbonModel = "1byte" /\ co2Data.rating = "null"

\* C20: rating banding.  For a rating model and every non-null CO2e value,
\* carbonRating returns the label of the first threshold of the model
\* version's table that the value is less than or equal to, and "F" when
\* the value exceeds all six; whatever co2Data an earlier estimate left.
TableOfVersion ==
  IF carbonModel = "swd3" THEN SWDM3_RATINGS ELSE SWDM4_RATINGS

FirstBand(v, t) ==
  IF \A k \in 1..6 : v > t[k] THEN "F"
  ELSE Ratings[CHOOSE k \in 1..6 : v <= t[k] /\ \A j \in 1..(k - 1) : v > t[j]]

C20_RatingBanding ==
  (call.fn = "carbonRating" /\ ~IsNull(call.co2e)
     /\ carbonModel \in {"swd3", "swd", "swd4"}) =>
        call.rating = FirstBand(call.co2e[1], TableOfVersion)

\* a value equal to fifthPercentile of version 4 is rated "A+", after an
\* estimate that was rated "F"
C20_Witness ==
  /\ call.fn = "carbonRating" /\ carbonModel = "swd4"
  /\ call.co2e = Num(SWDM4_RATINGS[1]) /\ call.rating = "A+"
  /\ co2Data.rating = "F"

\* C21: reporter ordering.  Of any two per-page lines of one pass, the one
\* printed first has the lower-cased URL that is not the greater, in
\* whatever order the measurements were returned.
C21_LinesSortedByUrl ==
  \A j, k \in 1..Len(stdout) :
    (j < k /\ stdout[j].kind = "page" /\ stdout[k].kind = "page"
       /\ stdout[j].pass = stdout[k].pass)
      => toLowerCase(stdout[j].url) <= toLowerCase(stdout[k].url)

\* the page spelled in upper case was returned first and is printed second
C21_Witness ==
  /\ handed.warm = <<12, 1>>
  /\ \E j \in 1..Len(stdout) :
       /\ j < Len(stdout)
       /\ stdout[j].kind = "page" /\ stdout[j].pass = "warm"
       /\ stdout[j].url = 1
       /\ stdout[j + 1].kind = "page" /\ stdout[j + 1].pass = "warm"
       /\ stdout[j + 1].url = 12

\* C22: configuration errors are fatal before any work.  When the process
\* has exited on an invalid positional URL, an unreadable source file or an
\* unknown measurement mode, its exit code is not zero and no discovery, no
\* hosting lookup, no browser launch, no page open and no cache clear has
\* occurred.
ConfigurationError == exit \in {"InvalidURL", "ReadError", "UnsupportedMode"}

C22_ConfigErrorsBeforeAnyWork ==
  ConfigurationError =>
    /\ exitCode # 0
    /\ ~sitemapCalled /\ crawl = "none"
    /\ hostingCalls = 0
    /\ browser = "none"
    /\ \A s \in Slots : tasks[s].page = "null" /\ tasks[s].sent = {}

\* C23: model capability gates ratings.  With the one-byte model, for either
\* setting of the ratings flag, every record returned by measurePage and
\* every record kept by main has rating null, no per-page line shows a
\* rating, and the summary shows no overall rating.
C23_OneByteNeverRated ==
  carbonModel = "1byte" =>
    /\ \A s \in Slots :
         tasks[s].pc = "returnedRecord" => tasks[s].ret.rating = "null"
    /\ \A k \in 1..Len(results) : results[k].rating = "null"
    /\ \A k \in 1..Len(firstVisitResults) :
         firstVisitResults[k].rating = "null"
    /\ \A k \in 1..Len(returnVisitResults) :
         returnVisitResults[k].rating = "null"
    /\ \A k \in 1..Len(stdout) : stdout[k].rating = "none"

\* a run of the one-byte model with ratings requested has printed page
\* lines of both passes and the summary
C23_Witness ==
  /\ carbonModel = "1byte" /\ carbonRatings
  /\ SummaryPrinted
  /\ \E k \in 1..Len(stdout) : stdout[k].kind = "page" /\ stdout[k].pass = "warm"
  /\ Len(firstVisitResults) > 0

\* C24: rating tables are version-specific.  For each of the six percentile
\* bands the version 3 and version 4 thresholds differ, each table is
\* non-decreasing from fifthPercentile to fiftiethPercentile, and a call of
\* carbonRating with a value is answered from the version 3 table when the
\* model is swd3 and from the version 4 table when it is swd or swd4.
C24_TablesPerVersion ==
  /\ \A k \in 1..6 : SWDM3_RATINGS[k] # SWDM4_RATINGS[k]
  /\ \A k \in 1..5 : /\ SWDM3_RATINGS[k] <= SWDM3_RATINGS[k + 1]
                      /\ SWDM4_RATINGS[k] <= SWDM4_RATINGS[k + 1]
  /\ (call.fn = "carbonRating" /\ ~IsNull(call.co2e)) =>
       /\ carbonModel = "swd3" =>
            call.rating = FirstBand(call.co2e[1], SWDM3_RATINGS)
       /\ carbonModel \in {"swd", "swd4"} =>
            call.rating = FirstBand(call.co2e[1], SWDM4_RATINGS)

\* under swd3 a value equal to fifthPercentile of version 3 is rated "A+";
\* the version 4 table would have rated it "B"
C24_Witness ==
  /\ call.fn = "carbonRating" /\ carbonModel = "swd3"
  /\ call.co2e = Num(SWDM3_RATINGS[1]) /\ call.rating = "A+"
  /\ FirstBand(call.co2e[1], SWDM4_RATINGS) = "B"

\* C25: green flag delegation.  A call of bytesToCO2 with a non-zero byte
\* count calls the external model exactly once, and under every
\* Sustainable-Web-Design model (swd, swd3, swd4) the green argument of
\* that call is the green flag the estimator was given.
C25_GreenFlagDelegated ==
  (call.fn = "bytesToCO2" /\ call.bytes # 0) =>
     /\ call.modelCalls = 1
     /\ carbonModel \in {"swd", "swd3", "swd4"} => call.greenArg = call.green

\* C26: a failed load is marked by nulls.  Every record measurePage returns
\* for a page whose navigation failed (its co2 is null) has rating null
\* too: never a rating that an estimate of another page left in co2Data.
FailedRecord(s) ==
  tasks[s].pc = "returnedRecord" /\ IsNull(tasks[s].ret.co2)

C26_FailedLoadAllNull ==
  \A s \in Slots : FailedRecord(s) => tasks[s].ret.rating = "null"

\* C27: measurePage never rejects.  A step in which page creation, viewport
\* set-up, session creation, Network.enable, the cache clear, the
\* navigation, detach or page close fails leaves that measurement returned
\* with null or on its way to returning its record, leaves every sibling as
\* it was and the run going; and Promise.all settles (results are collected,
\* the next group or the output follows) only when no measurement of the
\* group is in flight.
C27_FailureStep ==
  failures' > failures =>
    \E s \in Slots :
      /\ InFlight(tasks[s])
      /\ tasks'[s].pc \in {"returnedNull", "detach"}
      /\ \A t \in Slots \ {s} : tasks'[t] = tasks[t]
      /\ pc' = pc /\ i' = i /\ results' = results
      /\ exit' = "running"

C27_SettlesWhenAllSettled ==
  (pc = "batch" /\ (results' # results \/ i' # i \/ pc' # pc))
     => \A s \in Slots : ~InFlight(tasks[s])

C27_NeverRejects ==
  [][C27_FailureStep]_vars /\ [][C27_SettlesWhenAllSettled]_vars

\* a measurement of the first group failed before navigating and returned
\* null; the second group has measured its page
C27_Witness ==
  /\ pc = "batch" /\ failures = 1
  /\ i = concurrency /\ Len(results) = concurrency - 1
  /\ tasks[1].pc = "returnedRecord" /\ ~IsNull(tasks[1].ret.co2)

\* C28: one measurement per entry, records in input order.  While a pass
\* runs, measurePage has been called once for each entry of the list up to
\* the end of the running group, in list order, and the records collected
\* so far are a subsequence of the entries of the earlier groups; when the
\* pass has returned, measurePage was called exactly once per entry and
\* the records returned are a subsequence of the list, in list order.
RECURSIVE IsSubsequence(_, _)
IsSubsequence(a, b) ==
  IF a = << >> THEN TRUE
  ELSE IF b = << >> THEN FALSE
  ELSE IF Head(a) = Head(b) THEN IsSubsequence(Tail(a), Tail(b))
  ELSE IsSubsequence(a, Tail(b))

RecordUrls(rs) == [k \in 1..Len(rs) |-> rs[k].url]

PassResults == IF pass = "cold" THEN firstVisitResults ELSE returnVisitResults

C28_OneMeasurementPerEntry ==
  /\ pc = "batch" =>
       /\ \E n \in i..Len(urls) : started[pass] = SubSeq(urls, 1, n)
       /\ Len(started[pass]) - i = Cardinality({s \in Slots : tasks[s].pc # "idle"})
       /\ IsSubsequence(RecordUrls(results), SubSeq(urls, 1, i))
  /\ pc = "output" =>
       /\ started[pass] = urls
       /\ IsSubsequence(RecordUrls(PassResults), urls)

\* four pages in two groups: the second page returned null, the records of
\* the other three came back in list order
C28_Witness ==
  /\ pc = "output" /\ Len(urls) = 4
  /\ RecordUrls(firstVisitResults) = <<urls[1], urls[3], urls[4]>>

\* C29: record consistency.  In every record measurePage returns for a
\* successful load, in both accounting modes, co2 is the estimate of
\* exactly the byte count stored in the same record.
C29_RecordConsistent ==
  \A s \in Slots :
    (tasks[s].pc = "returnedRecord" /\ ~IsNull(tasks[s].ret.co2))
      => tasks[s].ret.co2 = bytesToCO2(tasks[s].ret.bytes, isGreen).ret

\* C30: cold-load isolation under concurrency.  While a cold-pass
\* measurement is navigating, the browser cache holds no entry stored by a
\* sibling measurement of the same group.
C30_ColdLoadIsolated ==
  (pc = "batch" /\ pass = "cold") =>
    \A s \in Slots :
      tasks[s].pc = "goto" =>
        \A t \in Slots \ {s} :
          tasks[t].pc # "idle" => tasks[t].url \notin cache

C32_CrawlResolves == pc = "crawl" => exit = "running"

====
